---- MODULE Spec2Model ----
(***************************************************************************)
(* Binary provisioning of mcp-json-yaml-toml (backends/binary_manager.py): *)
(* several OS processes call get_yq_binary_path() against the same home    *)
(* directory.  Every filesystem call of the code is one atomic step of the *)
(* calling process; steps of different processes interleave freely.        *)
(*                                                                         *)
(* A file name is the sequence of its tokens ("." and "-" are tokens of    *)
(* their own), so that Path.with_suffix and the glob of the pruning are    *)
(* computed on names as the code computes them.                            *)
(*                                                                         *)
(* Functions that are studied alone (version comparison, pagination,       *)
(* format enablement, validated writes) have specifications of their own:  *)
(* arg holds the inputs of the function, res what its calls have produced, *)
(* and no provisioning call runs.                                          *)
(***************************************************************************)
EXTENDS Integers, Sequences, FiniteSets, TLC

\* ------------------------------------------------------------------ bounds

\* Number of concurrent processes calling get_yq_binary_path.
NProcs == 2

Procs == 1..NProcs

\* ------------------------------------------------------- program constants

\* DEFAULT_YQ_VERSION = "v4.52.2"
DEFAULT_YQ_VERSION == <<"v", "4", ".", "52", ".", "2">>

\* Versions an operator may select through YQ_VERSION (the first is the default).
V_PATCH == <<"v", "4", ".", "52", ".", "3">>
V_MINOR == <<"v", "4", ".", "53", ".", "0">>

\* Numeric tokens and their integer values (str.isdigit / int()).
IntOf == [t \in {"0", "1", "2", "3", "4", "20", "25", "40", "52", "53"} |->
            CASE t = "0" -> 0 [] t = "1" -> 1 [] t = "2" -> 2 [] t = "3" -> 3
              [] t = "4" -> 4 [] t = "20" -> 20 [] t = "25" -> 25 [] t = "40" -> 40
              [] t = "52" -> 52 [] t = "53" -> 53]

\* ------------------------------------------------------------ pure helpers

\* str.startswith on token sequences.
StartsWith(s, pre) ==
    /\ Len(s) >= Len(pre)
    /\ SubSeq(s, 1, Len(pre)) = pre

\* Index of the last "." of a name, 0 when there is none (str.rfind).
LastDot(name) ==
    LET dots == {i \in 1..Len(name) : name[i] = "."}
    IN  IF dots = {} THEN 0 ELSE CHOOSE i \in dots : \A j \in dots : j <= i

\* PurePath.suffix is the part from the last dot on, unless the dot is the
\* first or the last character of the name.
HasSuffix(name) == LastDot(name) > 1 /\ LastDot(name) < Len(name)

\* PurePath.with_suffix(suffix): replaces the existing suffix, or appends.
with_suffix(name, suffix) ==
    IF HasSuffix(name)
    THEN SubSeq(name, 1, LastDot(name) - 1) \o suffix
    ELSE name \o suffix

\* _get_platform_binary_info(system, arch, version)[0]
platform_prefix(system, arch) == <<"yq", "-", system, "-", arch>>

\* _get_platform_binary_info(system, arch, version)[1]
binary_name(system, arch, version) ==
    IF system = "windows"
    THEN platform_prefix(system, arch) \o <<"-">> \o version \o <<".", "exe">>
    ELSE platform_prefix(system, arch) \o <<"-">> \o version

\* _get_platform_binary_info(system, arch, version)[2]
github_name(system, arch) ==
    IF system = "windows"
    THEN <<"yq", "_", system, "_", arch, ".", "exe">>
    ELSE <<"yq", "_", system, "_", arch>>

\* lock_path = dest_path.with_suffix(".lock")
lock_path(dest) == with_suffix(dest, <<".", "lock">>)

\* temp_path = dest_path.with_suffix(f".tmp.{uuid.uuid4().hex[:8]}")
temp_path(dest, token) == with_suffix(dest, <<".", "tmp", ".", token>>)

\* storage_dir.glob(f"{platform_prefix}-v*"): the names the pattern matches.
GlobMatches(name, prefix) == StartsWith(name, prefix \o <<"-", "v">>)

\* Faulty variant of lstrip_v: nothing is stripped.
lstrip_none(s) == s

\* str.lstrip("v"): every leading "v" is stripped.
RECURSIVE lstrip_v(_)
lstrip_v(s) == IF s # <<>> /\ Head(s) = "v" THEN lstrip_v(Tail(s)) ELSE s

\* Index of the first occurrence of token t in s, 0 when there is none.
FirstIndex(s, t) ==
    LET hits == {i \in 1..Len(s) : s[i] = t}
    IN  IF hits = {} THEN 0 ELSE CHOOSE i \in hits : \A j \in hits : i <= j

\* str.split("."): the segments between the dots.
RECURSIVE split_dot(_)
split_dot(s) ==
    LET i == FirstIndex(s, ".")
    IN  IF i = 0 THEN <<s>>
        ELSE <<SubSeq(s, 1, i - 1)>> \o split_dot(SubSeq(s, i + 1, Len(s)))

\* part.split("-")[0]
num_part(part) ==
    LET i == FirstIndex(part, "-")
    IN  IF i = 0 THEN part ELSE SubSeq(part, 1, i - 1)

\* A token str.isdigit() accepts and int() rejects with ValueError (a
\* superscript digit).
SuperscriptTwo == "sup2"

\* str.isdigit(): one numeric token (a run of digits is one token).
isdigit(part) == Len(part) = 1 /\ part[1] \in (DOMAIN IntOf) \cup {SuperscriptTwo}

\* int(num_part) raises ValueError for some segment of the version.
ParseRaises(version_str) ==
    \E i \in 1..Len(split_dot(lstrip_v(version_str))) :
        LET n == num_part(split_dot(lstrip_v(version_str))[i])
        IN  isdigit(n) /\ n[1] \notin DOMAIN IntOf

RECURSIVE parse_parts(_)
parse_parts(segs) ==
    IF segs = <<>> THEN <<>>
    ELSE LET n == num_part(Head(segs))
         IN  (IF isdigit(n) THEN <<IntOf[n[1]]>> ELSE <<>>) \o parse_parts(Tail(segs))

\* _parse_version(version_str)
_parse_version(version_str) == parse_parts(split_dot(lstrip_v(version_str)))

\* Faulty variant of tuple_ge: the comparison is strict.
RECURSIVE tuple_gt(_, _)
tuple_gt(a, b) ==
    IF a = <<>> THEN FALSE
    ELSE IF b = <<>> THEN TRUE
    ELSE IF Head(a) # Head(b) THEN Head(a) > Head(b)
    ELSE tuple_gt(Tail(a), Tail(b))

\* Python's tuple comparison a >= b.
RECURSIVE tuple_ge(_, _)
tuple_ge(a, b) ==
    IF b = <<>> THEN TRUE
    ELSE IF a = <<>> THEN FALSE
    ELSE IF Head(a) # Head(b) THEN Head(a) > Head(b)
    ELSE tuple_ge(Tail(a), Tail(b))

\* Faulty variant of _version_meets_minimum: only the major numbers are compared.
_version_meets_minimum_MajorOnly(system_version, minimum_version) ==
    LET a == _parse_version(system_version)
        b == _parse_version(minimum_version)
    IN  b = <<>> \/ (a # <<>> /\ Head(a) >= Head(b))

\* Line 426: except (ValueError, IndexError).
MeetsCaught == {"ValueError", "IndexError"}

\* The exception that leaves _version_meets_minimum ("" when none does).
MeetsRaises(system_version, minimum_version) ==
    IF (ParseRaises(system_version) \/ ParseRaises(minimum_version))
       /\ "ValueError" \notin MeetsCaught
    THEN "ValueError" ELSE ""

\* _version_meets_minimum(system_version, minimum_version)
_version_meets_minimum(system_version, minimum_version) ==
    IF ParseRaises(system_version) \/ ParseRaises(minimum_version) THEN FALSE
    ELSE tuple_ge(_parse_version(system_version), _parse_version(minimum_version))

\* get_yq_version(): env is the stripped value of YQ_VERSION (<<>> when unset).
get_yq_version(env) ==
    IF env # <<>>
    THEN (IF Head(env) = "v" THEN env ELSE <<"v">> \o env)
    ELSE DEFAULT_YQ_VERSION

\* Values of YQ_VERSION the processes may run with: unset or empty, the default
\* version named without and with its "v", and two other versions.
YQ_VERSION_ENV ==
    {<<>>, Tail(DEFAULT_YQ_VERSION), DEFAULT_YQ_VERSION, Tail(V_PATCH), V_MINOR}

\* hashlib.sha256(content).hexdigest(): an injective digest of the content.
sha256(content) == [alg |-> "sha256", of |-> content]

\* The bytes the release host serves for a version's asset.
Genuine(asset, version) == [kind |-> "complete", asset |-> asset, ver |-> version]

\* Bytes that are not the published asset (a truncated or tampered response).
Corrupt(asset, version) == [kind |-> "corrupt", asset |-> asset, ver |-> version]

\* A file that write_bytes has opened and not yet filled.
Partial(asset, version) == [kind |-> "partial", asset |-> asset, ver |-> version]

\* The empty content of a lock file or of the write-probe marker.
Empty == [kind |-> "empty", asset |-> <<>>, ver |-> <<>>]

\* DEFAULT_YQ_CHECKSUMS: the bundled table (asset name -> digest).
DEFAULT_YQ_CHECKSUMS ==
    [n \in {github_name("darwin", "amd64"), github_name("darwin", "arm64"),
            github_name("linux", "amd64"), github_name("linux", "arm64"),
            github_name("windows", "amd64")} |-> sha256(Genuine(n, DEFAULT_YQ_VERSION))]

\* _verify_checksum(file_path, expected_hash) on the bytes read from the file.
_verify_checksum(content, expected_hash) == sha256(content) = expected_hash

\* The yq executables shutil.which("yq") may find, with what running
\* "yq --version" gives.  run: "ok" (exit status 0), "nonzero", or the exception
\* subprocess.run raises; fingerprint: "mikefarah/yq" is in the output;
\* version: the text that follows "version " in the output.
Yq(run, fingerprint, version) ==
    [found |-> TRUE, run |-> run, fingerprint |-> fingerprint, version |-> version]
NoYq == [found |-> FALSE, run |-> "ok", fingerprint |-> FALSE, version |-> <<>>]
V_OLD == <<"v", "4", ".", "40", ".", "2">>
SystemYqs ==
    { NoYq,
      Yq("ok", FALSE, <<"3">>),
      Yq("ok", FALSE, V_MINOR),
      Yq("OSError", FALSE, <<>>),
      Yq("TimeoutExpired", TRUE, V_MINOR),
      Yq("nonzero", TRUE, V_MINOR),
      Yq("ok", TRUE, V_OLD),
      Yq("ok", TRUE, DEFAULT_YQ_VERSION),
      Yq("ok", TRUE, V_PATCH),
      Yq("ok", TRUE, V_MINOR),
      Yq("ok", TRUE, <<"v", "4", ".", "52">>),
      Yq("ok", TRUE, <<"v", "4", ".", "53">>),
      Yq("ok", TRUE, <<"4", ".", "25", ".", "1">>) }

\* Faulty variant of ProbeCaught: only a failed launch is caught.
ProbeCaught_LaunchOnly == {"OSError"}

\* Line 358: except (OSError, subprocess.TimeoutExpired, subprocess.SubprocessError).
ProbeCaught == {"OSError", "TimeoutExpired", "SubprocessError"}

\* The exception that leaves _get_yq_version_string ("" when none does).
ProbeRaises(yq) ==
    IF yq.run \notin {"ok", "nonzero"} /\ yq.run \notin ProbeCaught THEN yq.run ELSE ""

\* _get_yq_version_string(yq_path): <<>> stands for None.  The regular
\* expression version\s+(v[\d.]+) needs the "v" in front of the digits.
_get_yq_version_string(yq) ==
    IF yq.run # "ok" THEN <<>>
    ELSE IF ~yq.fingerprint THEN <<>>
    ELSE IF yq.version # <<>> /\ Head(yq.version) = "v" THEN yq.version
    ELSE <<>>

\* _find_system_yq(): TRUE when the executable on PATH is returned.
_find_system_yq(yq, env) ==
    /\ yq.found
    /\ _get_yq_version_string(yq) # <<>>
    /\ _version_meets_minimum(_get_yq_version_string(yq), get_yq_version(env))

\* ------------------------------------------------------------------- state

\* platform.system().lower() and the normalised platform.machine() of the host.
System == "linux"
Arch == "amd64"

\* Path.home()/.local/bin and the package's binaries/ directory.
Dirs == {"local", "pkg"}

\* test_file = local_bin / ".write_test"
WriteTest == <<".", "write_test">>

NoIno == -1

\* onpath when the executable on PATH is left open: every probe may meet any.
AnyYq == [found |-> FALSE, run |-> "any", fingerprint |-> FALSE, version |-> <<>>]

VARIABLES
    onpath,    \* what shutil.which("yq") finds on this host (AnyYq: not fixed)
    dir0,      \* the content of ~/.local/bin when the calls started (never changes)
    pc,        \* pc[p]: the statement process p executes next
    yqenv,     \* yqenv[p]: the value of YQ_VERSION in p's environment
    sdir,      \* sdir[p]: storage_dir chosen by _get_storage_location ("" before)
    files,     \* files[d]: the directory d, a function name -> [content, mode, ino]
    fh,        \* fh[p]: inode of the lock file p has open (NoIno: none)
    holds,     \* holds[p]: p holds the flock on fh[p]
    body,      \* body[p]: response.content p is writing to its temp file
    sums,      \* sums[p]: the checksums p resolved
    exc,       \* exc[p]: the exception propagating in p ("" none)
    ret,       \* ret[p]: the path get_yq_binary_path returned (<<>> none)
    msg,       \* msg[p]: which raise statement produced the final error
    via,       \* via[p]: how _download_yq_binary was left
    log,       \* log[p]: what p did (history of the externally visible steps)
    arg,       \* the inputs of the function under study (NoArg: provisioning runs)
    res        \* what the calls of that function have produced so far

\* The state of the provisioning.
pvars == <<onpath, dir0, pc, yqenv, sdir, files, fh, holds, body, sums, exc, ret, msg, via, log>>

vars == <<arg, res, onpath, dir0, pc, yqenv, sdir, files, fh, holds, body, sums, exc, ret,
          msg, via, log>>

NoArg == [fn |-> ""]
NoRes == [step |-> ""]

version(p) == get_yq_version(yqenv[p])
Dest(p) == binary_name(System, Arch, version(p))
Lock(p) == lock_path(Dest(p))
\* uuid.uuid4().hex[:8]: a token no other call draws.
Token(p) == CASE p = 1 -> "uuid1" [] p = 2 -> "uuid2" [] p = 3 -> "uuid3" [] OTHER -> "uuid4"
Temp(p) == temp_path(Dest(p), Token(p))

Exists(d, name) == name \in DOMAIN files[d]

\* The directory d with name bound to file f / with name removed.
WithFile(dir, name, f) ==
    [n \in (DOMAIN dir) \cup {name} |-> IF n = name THEN f ELSE dir[n]]
WithoutFiles(dir, names) == [n \in (DOMAIN dir) \ names |-> dir[n]]

File(content, mode, ino) == [content |-> content, mode |-> mode, ino |-> ino]

NoLog == [override |-> "", cache |-> "", system |-> "", cause |-> "", manifest |-> 0,
          transfers |-> 0, verified |-> FALSE, locked |-> FALSE, installed |-> FALSE,
          unlinked |-> FALSE, wrote |-> FALSE, pruned |-> {}, kept |-> {}]

\* Directory contents a call may start from.
EmptyDir == [n \in {} |-> File(Empty, 420, 0)]
Installed(v) == File(Genuine(github_name(System, Arch), v), 493, 0)
InitDirs ==
    { EmptyDir,
      WithFile(EmptyDir, binary_name(System, Arch, DEFAULT_YQ_VERSION),
               Installed(DEFAULT_YQ_VERSION)),
      WithFile(WithFile(EmptyDir, binary_name(System, Arch, V_MINOR), Installed(V_MINOR)),
               binary_name("darwin", "arm64", V_MINOR),
               File(Genuine(github_name("darwin", "arm64"), V_MINOR), 493, 0)) }

Init ==
    /\ arg = NoArg /\ res = NoRes
    /\ onpath = AnyYq
    /\ pc = [p \in Procs |-> "start"]
    /\ yqenv \in [Procs -> YQ_VERSION_ENV]
    /\ sdir = [p \in Procs |-> ""]
    /\ dir0 \in InitDirs
    /\ files = [x \in Dirs |-> IF x = "local" THEN dir0 ELSE EmptyDir]
    /\ fh = [p \in Procs |-> NoIno]
    /\ holds = [p \in Procs |-> FALSE]
    /\ body = [p \in Procs |-> Empty]
    /\ sums = [p \in Procs |-> <<>>]
    /\ exc = [p \in Procs |-> ""]
    /\ ret = [p \in Procs |-> <<>>]
    /\ msg = [p \in Procs |-> ""]
    /\ via = [p \in Procs |-> ""]
    /\ log = [p \in Procs |-> NoLog]

\* ------------------------------------------------- get_yq_binary_path, part 1

\* What YQ_BINARY_PATH may name: nothing, a regular file, a directory, no file.
YQ_BINARY_PATH_ENV == {"", "file", "dir", "missing"}

Raise(p, type, site) ==
    /\ exc' = [exc EXCEPT ![p] = type]
    /\ msg' = [msg EXCEPT ![p] = site]
    /\ pc' = [pc EXCEPT ![p] = "done"]

Return(p, path) ==
    /\ ret' = [ret EXCEPT ![p] = path]
    /\ pc' = [pc EXCEPT ![p] = "done"]

\* Faulty variant of CheckOverride: an override that names no regular file is treated
\* as a hint, and the chain continues.
CheckOverride_Hint(p) ==
    /\ pc[p] = "start"
    /\ \E custom_path \in YQ_BINARY_PATH_ENV :
         /\ log' = [log EXCEPT ![p].override = custom_path]
         /\ IF custom_path = "file"
            THEN Return(p, <<"env", <<custom_path>>>>)
            ELSE pc' = [pc EXCEPT ![p] = "loc_touch"] /\ UNCHANGED ret
    /\ UNCHANGED <<arg, res, onpath, dir0, yqenv, sdir, files, fh, holds, body, sums, exc, msg, via>>

\* Lines 524-532: the explicit override is looked at first.
CheckOverride(p) ==
    /\ pc[p] = "start"
    /\ \E custom_path \in YQ_BINARY_PATH_ENV :
         IF custom_path # ""
         THEN /\ log' = [log EXCEPT ![p].override = custom_path]
              /\ IF custom_path = "file"
                 THEN Return(p, <<"env", <<custom_path>>>>) /\ UNCHANGED <<exc, msg>>
                 ELSE Raise(p, "YQBinaryNotFoundError", "override") /\ UNCHANGED ret
         ELSE /\ pc' = [pc EXCEPT ![p] = "loc_touch"]
              /\ UNCHANGED <<log, exc, msg, ret>>
    /\ UNCHANGED <<arg, res, onpath, dir0, yqenv, sdir, files, fh, holds, body, sums, via>>

\* _get_storage_location, lines 81-84: mkdir(exist_ok) and test_file.touch().
StorageTouch(p) ==
    /\ pc[p] = "loc_touch"
    /\ files' = [files EXCEPT !["local"] =
                    IF WriteTest \in DOMAIN @ THEN @
                    ELSE WithFile(@, WriteTest, File(Empty, 420, 0))]
    /\ log' = [log EXCEPT ![p].wrote = TRUE]
    /\ pc' = [pc EXCEPT ![p] = "loc_unlink"]
    /\ UNCHANGED <<arg, res, onpath, dir0, yqenv, sdir, fh, holds, body, sums, exc, ret, msg, via>>

\* _get_storage_location, lines 85-94: test_file.unlink(); an OSError (the
\* marker is gone) selects the package directory.
StorageUnlink(p) ==
    /\ pc[p] = "loc_unlink"
    /\ IF Exists("local", WriteTest)
       THEN /\ files' = [files EXCEPT !["local"] = WithoutFiles(@, {WriteTest})]
            /\ sdir' = [sdir EXCEPT ![p] = "local"]
       ELSE /\ sdir' = [sdir EXCEPT ![p] = "pkg"]
            /\ UNCHANGED files
    /\ pc' = [pc EXCEPT ![p] = "cache"]
    /\ UNCHANGED <<arg, res, onpath, dir0, yqenv, fh, holds, body, sums, exc, ret, msg, via, log>>

\* Faulty variant of CheckCache: a cache hit is noted but the chain goes on to the
\* system PATH.
CheckCache_NoReturn(p) ==
    /\ pc[p] = "cache"
    /\ log' = [log EXCEPT ![p].cache = IF Exists(sdir[p], Dest(p)) THEN "hit" ELSE "miss"]
    /\ pc' = [pc EXCEPT ![p] = "probe"]
    /\ UNCHANGED <<arg, res, onpath, dir0, yqenv, sdir, files, fh, holds, body, sums, exc, ret, msg, via>>

\* Lines 557-561: the cached versioned binary.
CheckCache(p) ==
    /\ pc[p] = "cache"
    /\ IF Exists(sdir[p], Dest(p))
       THEN /\ Return(p, <<sdir[p], Dest(p)>>)
            /\ log' = [log EXCEPT ![p].cache = "hit"]
       ELSE /\ pc' = [pc EXCEPT ![p] = "probe"]
            /\ log' = [log EXCEPT ![p].cache = "miss"]
            /\ UNCHANGED ret
    /\ UNCHANGED <<arg, res, onpath, dir0, yqenv, sdir, files, fh, holds, body, sums, exc, msg, via>>

\* The executables a probe may meet.
Candidates == IF onpath = AnyYq THEN SystemYqs ELSE {onpath}

\* Lines 565-570: the yq on the system PATH.  An exception that
\* _get_yq_version_string does not catch would leave get_yq_binary_path.
ProbeSystem(p) ==
    /\ pc[p] = "probe"
    /\ \E yq \in Candidates :
         IF yq.found /\ ProbeRaises(yq) # ""
         THEN /\ Raise(p, ProbeRaises(yq), "probe")
              /\ UNCHANGED <<ret, log>>
         ELSE IF _find_system_yq(yq, yqenv[p])
         THEN /\ Return(p, <<"PATH", <<"yq">>>>)
              /\ log' = [log EXCEPT ![p].system = "found"]
              /\ UNCHANGED <<exc, msg>>
         ELSE /\ pc' = [pc EXCEPT ![p] = "dl_fast"]
              /\ log' = [log EXCEPT ![p].system = "absent"]
              /\ UNCHANGED <<ret, exc, msg>>
    /\ UNCHANGED <<arg, res, onpath, dir0, yqenv, sdir, files, fh, holds, body, sums, via>>

\* -------------------------------------------------------- _download_yq_binary

Asset == github_name(System, Arch)

\* What the release host's checksums file may yield for a version once parsed
\* by _fetch_checksums_from_github: the published table, or one without the
\* line of this platform's asset.
Manifests(v) ==
    { [n \in {Asset} |-> sha256(Genuine(n, v))],
      [n \in {github_name("darwin", "arm64")} |-> sha256(Genuine(n, v))] }

\* An exception raised inside the with block: it propagates through `finally`
\* (when raised inside the try) and through the lock's __exit__.
Throw(p, type, site, next) ==
    /\ exc' = [exc EXCEPT ![p] = type]
    /\ msg' = [msg EXCEPT ![p] = site]
    /\ pc' = [pc EXCEPT ![p] = next]

\* Lines 277-279: the unlocked fast path.
FastCheck(p) ==
    /\ pc[p] = "dl_fast"
    /\ IF Exists(sdir[p], Dest(p))
       THEN pc' = [pc EXCEPT ![p] = "post"] /\ via' = [via EXCEPT ![p] = "fast"]
       ELSE pc' = [pc EXCEPT ![p] = "dl_open"] /\ UNCHANGED via
    /\ UNCHANGED <<arg, res, onpath, dir0, yqenv, sdir, files, fh, holds, body, sums, exc, ret, msg, log>>

\* portalocker.Lock.acquire: open(lock_path, "a") creates the file when absent.
OpenLock(p) ==
    /\ pc[p] = "dl_open"
    /\ IF Exists(sdir[p], Lock(p))
       THEN /\ fh' = [fh EXCEPT ![p] = files[sdir[p]][Lock(p)].ino]
            /\ UNCHANGED files
       ELSE /\ fh' = [fh EXCEPT ![p] = p]
            /\ files' = [files EXCEPT ![sdir[p]] = WithFile(@, Lock(p), File(Empty, 420, p))]
    /\ pc' = [pc EXCEPT ![p] = "dl_acquire"]
    /\ UNCHANGED <<arg, res, onpath, dir0, yqenv, sdir, holds, body, sums, exc, ret, msg, via, log>>

\* Some other process holds the flock on the inode p has open.
LockedByOther(p) == \E q \in Procs \ {p} : holds[q] /\ fh[q] = fh[p]

\* portalocker.Lock.acquire: flock(LOCK_EX | LOCK_NB) succeeds on the open file.
AcquireLock(p) ==
    /\ pc[p] = "dl_acquire"
    /\ ~LockedByOther(p)
    /\ holds' = [holds EXCEPT ![p] = TRUE]
    /\ log' = [log EXCEPT ![p].locked = TRUE]
    /\ pc' = [pc EXCEPT ![p] = "dl_recheck"]
    /\ UNCHANGED <<arg, res, onpath, dir0, yqenv, sdir, files, fh, body, sums, exc, ret, msg, via>>

\* portalocker.Lock.acquire: the lock stayed held for lock_timeout seconds; the
\* file is closed and LockException leaves get_yq_binary_path (no handler).
LockTimeout(p) ==
    /\ pc[p] = "dl_acquire"
    /\ LockedByOther(p)
    /\ fh' = [fh EXCEPT ![p] = NoIno]
    /\ via' = [via EXCEPT ![p] = "error"]
    /\ Throw(p, "LockException", "lock_timeout", "done")
    /\ UNCHANGED <<arg, res, onpath, dir0, yqenv, sdir, files, holds, body, sums, ret, log>>

\* Faulty variant of Recheck: the existence of the final path is not tested again
\* once the lock is held.
Recheck_NotRepeated(p) ==
    /\ pc[p] = "dl_recheck"
    /\ pc' = [pc EXCEPT ![p] = "dl_checksums"]
    /\ UNCHANGED <<arg, res, onpath, dir0, yqenv, sdir, files, fh, holds, body, sums, exc, ret, msg, via, log>>

\* Lines 291-296: the re-check under the lock; `return` leaves the with block.
Recheck(p) ==
    /\ pc[p] = "dl_recheck"
    /\ IF Exists(sdir[p], Dest(p))
       THEN pc' = [pc EXCEPT ![p] = "dl_release"] /\ via' = [via EXCEPT ![p] = "recheck"]
       ELSE pc' = [pc EXCEPT ![p] = "dl_checksums"] /\ UNCHANGED via
    /\ UNCHANGED <<arg, res, onpath, dir0, yqenv, sdir, files, fh, holds, body, sums, exc, ret, msg, log>>

\* Faulty variant of GetChecksums: the manifest is fetched for every version.
GetChecksums_AlwaysFetch(p) ==
    /\ pc[p] = "dl_checksums"
    /\ log' = [log EXCEPT ![p].manifest = @ + 1]
    /\ \/ /\ Throw(p, "YQError", "manifest_network", "dl_release")
          /\ UNCHANGED sums
       \/ \E m \in Manifests(version(p)) :
            /\ sums' = [sums EXCEPT ![p] = m]
            /\ IF Asset \in DOMAIN m
               THEN pc' = [pc EXCEPT ![p] = "dl_download"] /\ UNCHANGED <<exc, msg>>
               ELSE Throw(p, "YQError", "no_checksum", "dl_release")
    /\ UNCHANGED <<arg, res, onpath, dir0, yqenv, sdir, files, fh, holds, body, ret, via>>

\* Lines 302-305 with _get_checksums: the bundled table for the default
\* version, the fetched manifest otherwise.
GetChecksums(p) ==
    /\ pc[p] = "dl_checksums"
    /\ IF version(p) = DEFAULT_YQ_VERSION
       THEN /\ sums' = [sums EXCEPT ![p] = DEFAULT_YQ_CHECKSUMS]
            /\ IF Asset \in DOMAIN DEFAULT_YQ_CHECKSUMS
               THEN pc' = [pc EXCEPT ![p] = "dl_download"] /\ UNCHANGED <<exc, msg>>
               ELSE Throw(p, "YQError", "no_checksum", "dl_release")
            /\ UNCHANGED log
       ELSE /\ log' = [log EXCEPT ![p].manifest = @ + 1]
            /\ \/ /\ Throw(p, "YQError", "manifest_network", "dl_release")
                  /\ UNCHANGED sums
               \/ \E m \in Manifests(version(p)) :
                    /\ sums' = [sums EXCEPT ![p] = m]
                    /\ IF Asset \in DOMAIN m
                       THEN pc' = [pc EXCEPT ![p] = "dl_download"] /\ UNCHANGED <<exc, msg>>
                       ELSE Throw(p, "YQError", "no_checksum", "dl_release")
    /\ UNCHANGED <<arg, res, onpath, dir0, yqenv, sdir, files, fh, holds, body, ret, via>>

\* _download_file, lines 133-140: the GET; on success write_bytes opens the
\* temp file (created, still without its content).
Download(p) ==
    /\ pc[p] = "dl_download"
    /\ log' = [log EXCEPT ![p].transfers = @ + 1]
    /\ \/ /\ Throw(p, "YQError", "network", "dl_finally")
          /\ UNCHANGED <<files, body>>
       \/ \E c \in {Genuine(Asset, version(p)), Corrupt(Asset, version(p))} :
            /\ body' = [body EXCEPT ![p] = c]
            /\ files' = [files EXCEPT ![sdir[p]] =
                            WithFile(@, Temp(p), File(Partial(Asset, version(p)), 420, 0))]
            /\ pc' = [pc EXCEPT ![p] = "dl_write"]
            /\ UNCHANGED <<exc, msg>>
    /\ UNCHANGED <<arg, res, onpath, dir0, yqenv, sdir, fh, holds, sums, ret, via>>

\* _download_file, line 136: write_bytes fills and closes the file it opened
\* (a file unlinked meanwhile is not brought back), or fails with an OSError.
WriteTemp(p) ==
    /\ pc[p] = "dl_write"
    /\ body' = [body EXCEPT ![p] = Empty]
    /\ \/ /\ files' = [files EXCEPT ![sdir[p]] =
                          IF Temp(p) \in DOMAIN @
                          THEN WithFile(@, Temp(p), File(body[p], 420, 0)) ELSE @]
          /\ pc' = [pc EXCEPT ![p] = "dl_verify"]
          /\ UNCHANGED <<exc, msg>>
       \/ /\ Throw(p, "OSError", "write", "dl_finally")
          /\ UNCHANGED files
    /\ UNCHANGED <<arg, res, onpath, dir0, yqenv, sdir, fh, holds, sums, ret, via, log>>

\* Faulty variant of Verify: the digest is computed but its comparison is ignored.
Verify_Ignored(p) ==
    /\ pc[p] = "dl_verify"
    /\ IF ~Exists(sdir[p], Temp(p))
       THEN Throw(p, "OSError", "verify_read", "dl_finally") /\ UNCHANGED log
       ELSE /\ pc' = [pc EXCEPT ![p] = "dl_chmod"]
            /\ log' = [log EXCEPT ![p].verified = TRUE]
            /\ UNCHANGED <<exc, msg>>
    /\ UNCHANGED <<arg, res, onpath, dir0, yqenv, sdir, files, fh, holds, body, sums, ret, via>>

\* Faulty variant of Verify: the mismatch is raised past the finally clause.
Verify_OutsideTry(p) ==
    /\ pc[p] = "dl_verify"
    /\ IF ~Exists(sdir[p], Temp(p))
       THEN Throw(p, "OSError", "verify_read", "dl_finally") /\ UNCHANGED log
       ELSE IF _verify_checksum(files[sdir[p]][Temp(p)].content, sums[p][Asset])
       THEN /\ pc' = [pc EXCEPT ![p] = "dl_chmod"]
            /\ log' = [log EXCEPT ![p].verified = TRUE]
            /\ UNCHANGED <<exc, msg>>
       ELSE Throw(p, "YQError", "checksum_mismatch", "dl_release") /\ UNCHANGED log
    /\ UNCHANGED <<arg, res, onpath, dir0, yqenv, sdir, files, fh, holds, body, sums, ret, via>>

\* Lines 318-319: _verify_checksum reads the temp file (FileNotFoundError when
\* it is gone) and compares its digest with the expected one.
Verify(p) ==
    /\ pc[p] = "dl_verify"
    /\ IF ~Exists(sdir[p], Temp(p))
       THEN Throw(p, "OSError", "verify_read", "dl_finally") /\ UNCHANGED log
       ELSE IF _verify_checksum(files[sdir[p]][Temp(p)].content, sums[p][Asset])
       THEN /\ pc' = [pc EXCEPT ![p] = "dl_chmod"]
            /\ log' = [log EXCEPT ![p].verified = TRUE]
            /\ UNCHANGED <<exc, msg>>
       ELSE Throw(p, "YQError", "checksum_mismatch", "dl_finally") /\ UNCHANGED log
    /\ UNCHANGED <<arg, res, onpath, dir0, yqenv, sdir, files, fh, holds, body, sums, ret, via>>

\* Faulty variant of Chmod: the mode of the temp file is left as written.
Chmod_Skipped(p) ==
    /\ pc[p] = "dl_chmod"
    /\ \/ /\ Exists(sdir[p], Temp(p))
          /\ pc' = [pc EXCEPT ![p] = "dl_rename"]
          /\ UNCHANGED <<exc, msg, files>>
       \/ /\ Throw(p, "OSError", "chmod", "dl_finally")
          /\ UNCHANGED files
    /\ UNCHANGED <<arg, res, onpath, dir0, yqenv, sdir, fh, holds, body, sums, ret, via, log>>

\* Lines 322-323: temp_path.chmod(0o755) (os.name is posix on this host).
Chmod(p) ==
    /\ pc[p] = "dl_chmod"
    /\ \/ /\ Exists(sdir[p], Temp(p))
          /\ files' = [files EXCEPT ![sdir[p]][Temp(p)].mode = 493]
          /\ pc' = [pc EXCEPT ![p] = "dl_rename"]
          /\ UNCHANGED <<exc, msg>>
       \/ /\ Throw(p, "OSError", "chmod", "dl_finally")
          /\ UNCHANGED files
    /\ UNCHANGED <<arg, res, onpath, dir0, yqenv, sdir, fh, holds, body, sums, ret, via, log>>

\* Line 326: temp_path.rename(dest_path), POSIX rename(2).
Rename(p) ==
    /\ pc[p] = "dl_rename"
    /\ \/ /\ Exists(sdir[p], Temp(p))
          /\ files' = [files EXCEPT ![sdir[p]] =
                          WithFile(WithoutFiles(@, {Temp(p)}), Dest(p), @[Temp(p)])]
          /\ log' = [log EXCEPT ![p].installed = TRUE]
          /\ pc' = [pc EXCEPT ![p] = "dl_prune"]
          /\ UNCHANGED <<exc, msg>>
       \/ /\ Throw(p, "OSError", "rename", "dl_finally")
          /\ UNCHANGED <<files, log>>
    /\ UNCHANGED <<arg, res, onpath, dir0, yqenv, sdir, fh, holds, body, sums, ret, via>>

\* Faulty variant of Stale: no file counts as an old version.
Stale_None(dir, prefix, current_binary) == {}

\* _cleanup_old_versions(storage_dir, platform_prefix, current_binary): the
\* names it unlinks.
Stale(dir, prefix, current_binary) ==
    {n \in DOMAIN dir : GlobMatches(n, prefix) /\ n # current_binary}

\* How many unlink calls of one pruning may fail.
MaxUnlinkFailures == 1

\* Faulty variant of Prune: the OSError of a failed unlink ends the loop and leaves
\* _cleanup_old_versions.
Prune_Abort(p) ==
    /\ pc[p] = "dl_prune"
    /\ LET stale == Stale(files[sdir[p]], platform_prefix(System, Arch), Dest(p))
       IN  \E failed \in SUBSET stale :
             /\ Cardinality(failed) <= MaxUnlinkFailures
             /\ IF failed = {}
                THEN /\ files' = [files EXCEPT ![sdir[p]] = WithoutFiles(@, stale)]
                     /\ log' = [log EXCEPT ![p].pruned = stale]
                     /\ pc' = [pc EXCEPT ![p] = "dl_finally"]
                     /\ UNCHANGED <<exc, msg>>
                ELSE /\ log' = [log EXCEPT ![p].kept = failed]
                     /\ Throw(p, "OSError", "prune", "dl_finally")
                     /\ UNCHANGED files
    /\ UNCHANGED <<arg, res, onpath, dir0, yqenv, sdir, fh, holds, body, sums, ret, via>>

\* Line 332 with _cleanup_old_versions, lines 224-234: after the rename every
\* stale match is unlinked; an unlink that fails with OSError is reported and
\* the loop goes on.
Prune(p) ==
    /\ pc[p] = "dl_prune"
    /\ LET stale == Stale(files[sdir[p]], platform_prefix(System, Arch), Dest(p))
       IN  \E failed \in SUBSET stale :
             /\ Cardinality(failed) <= MaxUnlinkFailures
             /\ files' = [files EXCEPT ![sdir[p]] = WithoutFiles(@, stale \ failed)]
             /\ log' = [log EXCEPT ![p].pruned = stale \ failed, ![p].kept = failed]
    /\ pc' = [pc EXCEPT ![p] = "dl_finally"]
    /\ UNCHANGED <<arg, res, onpath, dir0, yqenv, sdir, fh, holds, body, sums, exc, ret, msg, via>>

\* Faulty variant of Finally: no cleanup of the temp file.
Finally_NoCleanup(p) ==
    /\ pc[p] = "dl_finally"
    /\ pc' = [pc EXCEPT ![p] = "dl_release"]
    /\ UNCHANGED <<arg, res, onpath, dir0, yqenv, sdir, files, fh, holds, body, sums, exc, ret, msg, via, log>>

\* Lines 334-338: finally, the temp file is removed if it still exists.
Finally(p) ==
    /\ pc[p] = "dl_finally"
    /\ files' = [files EXCEPT ![sdir[p]] = WithoutFiles(@, {Temp(p)})]
    /\ pc' = [pc EXCEPT ![p] = "dl_release"]
    /\ UNCHANGED <<arg, res, onpath, dir0, yqenv, sdir, fh, holds, body, sums, exc, ret, msg, via, log>>

\* base.py: the classes an exception of the given type is an instance of.
Bases(type) ==
    CASE type = "YQBinaryNotFoundError" -> {"YQBinaryNotFoundError", "YQError", "Exception"}
      [] type = "YQError" -> {"YQError", "Exception"}
      [] OTHER -> {type, "Exception"}

\* Line 605: `except YQError` catches what is raised inside the try of line 587.
Caught605(type) == "YQError" \in Bases(type)

\* portalocker.Lock.__exit__: unlock and close.  Then the statement that left
\* the with block decides what runs next: the early `return` and an exception
\* leave _download_yq_binary at once, only falling off the end reaches line 342.
\* A YQError is caught at line 605 and raised again as YQBinaryNotFoundError.
Release(p) ==
    /\ pc[p] = "dl_release"
    /\ holds' = [holds EXCEPT ![p] = FALSE]
    /\ fh' = [fh EXCEPT ![p] = NoIno]
    /\ IF Caught605(exc[p])
       THEN /\ exc' = [exc EXCEPT ![p] = "YQBinaryNotFoundError"]
            /\ msg' = [msg EXCEPT ![p] = "download_failed"]
            /\ log' = [log EXCEPT ![p].cause = msg[p]]
            /\ via' = [via EXCEPT ![p] = "error"]
            /\ pc' = [pc EXCEPT ![p] = "done"]
       ELSE IF exc[p] # ""
       THEN /\ via' = [via EXCEPT ![p] = "error"]
            /\ pc' = [pc EXCEPT ![p] = "done"]
            /\ UNCHANGED <<exc, msg, log>>
       ELSE IF via[p] = "recheck"
       THEN /\ pc' = [pc EXCEPT ![p] = "post"]
            /\ UNCHANGED <<exc, msg, log, via>>
       ELSE /\ pc' = [pc EXCEPT ![p] = "dl_unlink_lock"]
            /\ UNCHANGED <<exc, msg, log, via>>
    /\ UNCHANGED <<arg, res, onpath, dir0, yqenv, sdir, files, body, sums, ret>>

\* Lines 341-342: lock_path.unlink(), OSError suppressed.
UnlinkLock(p) ==
    /\ pc[p] = "dl_unlink_lock"
    /\ files' = [files EXCEPT ![sdir[p]] = WithoutFiles(@, {Lock(p)})]
    /\ via' = [via EXCEPT ![p] = "installed"]
    /\ log' = [log EXCEPT ![p].unlinked = TRUE]
    /\ pc' = [pc EXCEPT ![p] = "post"]
    /\ UNCHANGED <<arg, res, onpath, dir0, yqenv, sdir, fh, holds, body, sums, exc, ret, msg>>

\* ------------------------------------------------- get_yq_binary_path, part 2

\* Lines 594-611: the existence check after the download returned; the raise of
\* line 601 is inside the try and is caught by `except YQError` of line 605.
AfterDownload(p) ==
    /\ pc[p] = "post"
    /\ IF Exists(sdir[p], Dest(p))
       THEN Return(p, <<sdir[p], Dest(p)>>) /\ UNCHANGED <<exc, msg, log>>
       ELSE /\ IF Caught605("YQBinaryNotFoundError")
               THEN Raise(p, "YQBinaryNotFoundError", "download_failed")
               ELSE Raise(p, "YQBinaryNotFoundError", "missing_after_download")
            /\ log' = [log EXCEPT ![p].cause = "missing_after_download"]
            /\ UNCHANGED ret
    /\ UNCHANGED <<arg, res, onpath, dir0, yqenv, sdir, files, fh, holds, body, sums, via>>

Step(p) ==
    \/ CheckOverride(p)
    \/ StorageTouch(p)
    \/ StorageUnlink(p)
    \/ CheckCache(p)
    \/ ProbeSystem(p)
    \/ FastCheck(p)
    \/ OpenLock(p)
    \/ AcquireLock(p)
    \/ LockTimeout(p)
    \/ Recheck(p)
    \/ GetChecksums(p)
    \/ Download(p)
    \/ WriteTemp(p)
    \/ Verify(p)
    \/ Chmod(p)
    \/ Rename(p)
    \/ Prune(p)
    \/ Finally(p)
    \/ Release(p)
    \/ UnlinkLock(p)
    \/ AfterDownload(p)

Next == \E p \in Procs : Step(p)

Spec == Init /\ [][Next]_vars

\* ------------------------------------------- one call and a given yq on PATH

\* An older version an operator may pin through YQ_VERSION.
V_OLD_PIN == <<"v", "4", ".", "20", ".", "1">>
PROBE_ENV == YQ_VERSION_ENV \cup {V_OLD_PIN}

\* One call (process 1) on a host whose PATH holds a given executable; the
\* other processes make no call.
InitProbe ==
    /\ arg = NoArg /\ res = NoRes
    /\ onpath \in SystemYqs
    /\ pc = [p \in Procs |-> IF p = 1 THEN "start" ELSE "done"]
    /\ yqenv \in {[p \in Procs |-> IF p = 1 THEN e ELSE <<>>] : e \in PROBE_ENV}
    /\ sdir = [p \in Procs |-> ""]
    /\ dir0 \in InitDirs
    /\ files = [x \in Dirs |-> IF x = "local" THEN dir0 ELSE EmptyDir]
    /\ fh = [p \in Procs |-> NoIno]
    /\ holds = [p \in Procs |-> FALSE]
    /\ body = [p \in Procs |-> Empty]
    /\ sums = [p \in Procs |-> <<>>]
    /\ exc = [p \in Procs |-> ""]
    /\ ret = [p \in Procs |-> <<>>]
    /\ msg = [p \in Procs |-> ""]
    /\ via = [p \in Procs |-> ""]
    /\ log = [p \in Procs |-> NoLog]

\* get_yq_binary_path up to the decision of line 566.
NextProbe ==
    \E p \in Procs :
        \/ CheckOverride(p)
        \/ StorageTouch(p)
        \/ StorageUnlink(p)
        \/ CheckCache(p)
        \/ ProbeSystem(p)

ProbeSpec == InitProbe /\ [][NextProbe]_vars

\* ------------------------------------------------- functions studied alone

\* No provisioning call runs.
NoProvisioning ==
    /\ onpath = AnyYq
    /\ pc = [p \in Procs |-> "done"]
    /\ yqenv = [p \in Procs |-> <<>>]
    /\ sdir = [p \in Procs |-> ""]
    /\ dir0 = EmptyDir
    /\ files = [x \in Dirs |-> EmptyDir]
    /\ fh = [p \in Procs |-> NoIno]
    /\ holds = [p \in Procs |-> FALSE]
    /\ body = [p \in Procs |-> Empty]
    /\ sums = [p \in Procs |-> <<>>]
    /\ exc = [p \in Procs |-> ""]
    /\ ret = [p \in Procs |-> <<>>]
    /\ msg = [p \in Procs |-> ""]
    /\ via = [p \in Procs |-> ""]
    /\ log = [p \in Procs |-> NoLog]

\* ------------------------------------ _parse_version, _version_meets_minimum

\* Version strings: with and without "v", with two and three segments, with a
\* pre-release suffix, with a non-numeric segment, empty, and one with a
\* segment that isdigit() accepts and int() rejects.
VersionStrings ==
    { DEFAULT_YQ_VERSION, Tail(DEFAULT_YQ_VERSION), V_PATCH, V_MINOR, V_OLD,
      <<"v", "4", ".", "52">>, <<"v", "4", ".", "53">>, <<"v", "3">>,
      <<"v", "4", ".", "52", ".", "2", "-", "rc1">>,
      <<"4", ".", "53", ".", "0", "-", "beta">>,
      <<"v", "4", ".", "x", ".", "2">>,
      <<>>,
      <<"v", "4", ".", "52", ".", SuperscriptTwo>> }

InitVersion ==
    /\ NoProvisioning
    /\ arg \in [fn : {"version"}, a : VersionStrings, b : VersionStrings]
    /\ res = NoRes

\* A call _version_meets_minimum(a, b).
MeetsMinimum ==
    /\ arg.fn = "version" /\ res.step = ""
    /\ res' = [step |-> "compared",
               value |-> _version_meets_minimum(arg.a, arg.b),
               raised |-> MeetsRaises(arg.a, arg.b),
               parsed |-> <<>>, again |-> <<>>]
    /\ UNCHANGED <<arg, pvars>>

\* str(n) of an integer a version segment gave.
StrOf(n) == CHOOSE t \in DOMAIN IntOf : IntOf[t] = n

\* The version form of the docstrings ("v4.52.2"): "v", then the integers
\* joined with dots.
RECURSIVE JoinDots(_)
JoinDots(t) ==
    IF t = <<>> THEN <<>>
    ELSE IF Len(t) = 1 THEN <<StrOf(t[1])>>
    ELSE <<StrOf(t[1]), ".">> \o JoinDots(Tail(t))
Render(t) == <<"v">> \o JoinDots(t)

\* A call _parse_version(a).
ParseVersion ==
    /\ arg.fn = "version" /\ res.step = ""
    /\ res' = IF ParseRaises(arg.a)
              THEN [step |-> "parsed", value |-> FALSE, raised |-> "ValueError",
                    parsed |-> <<>>, again |-> <<>>]
              ELSE [step |-> "parsed", value |-> FALSE, raised |-> "",
                    parsed |-> _parse_version(arg.a), again |-> <<>>]
    /\ UNCHANGED <<arg, pvars>>

\* The tuple is rendered and the rendering is parsed again.
ParseRendered ==
    /\ arg.fn = "version" /\ res.step = "parsed" /\ res.raised = ""
    /\ res' = [res EXCEPT !.step = "rendered",
                          !.again = _parse_version(Render(res.parsed))]
    /\ UNCHANGED <<arg, pvars>>

NextVersion == MeetsMinimum \/ ParseVersion \/ ParseRendered

VersionSpec == InitVersion /\ [][NextVersion]_vars

\* ------------------------------------------------------------------ claims

AllDone == \A p \in Procs : pc[p] = "done"

\* A name made by temp_path: it carries the ".tmp." infix.
IsTempName(n) == \E i \in 1..Len(n) : n[i] = "tmp"

\* A name made by lock_path.
IsLockName(n) == n # <<>> /\ n[Len(n)] = "lock"

TempFiles(d) == {n \in DOMAIN files[d] : IsTempName(n)}
LockFiles(d) == {n \in DOMAIN files[d] : IsLockName(n)}

\* C1: N >= 2 simultaneous calls for one target on an empty storage directory,
\* no override, no qualifying system yq, no failure: once all have finished
\* there is exactly one final binary file, no temporary file, and all calls
\* returned the same path.
C1_Scenario ==
    /\ AllDone
    /\ dir0 = EmptyDir
    /\ \A p, q \in Procs : version(p) = version(q)
    /\ \A p \in Procs : log[p].override = "" /\ log[p].system = "absent" /\ exc[p] = ""
C1_OneBinaryOnePath ==
    C1_Scenario =>
        /\ Cardinality({d \in Dirs : Exists(d, Dest(1))}) = 1
        /\ \A d \in Dirs : TempFiles(d) = {}
        /\ \A p, q \in Procs : ret[p] = ret[q]

\* The calls of _download_yq_binary made for version v in directory d.
Callers(d, v) ==
    {p \in Procs : sdir[p] = d /\ version(p) = v /\ log[p].system = "absent"}
Transferred(p) == log[p].transfers > 0
Targets == {get_yq_version(e) : e \in YQ_VERSION_ENV}

C3_FinalIsCompleteVerified ==
    \A d \in Dirs, v \in Targets :
        LET n == binary_name(System, Arch, v)
        IN  Exists(d, n) => files[d][n].content = Genuine(Asset, v)

\* C3 witness: a binary installed by a call of this run is at its final path
\* while another call has a partially written temp file in the same directory.
C3_Witness ==
    \E p, q \in Procs :
        /\ p # q /\ sdir[p] = sdir[q]
        /\ log[p].installed /\ Exists(sdir[p], Dest(p))
        /\ Exists(sdir[q], Temp(q))
        /\ files[sdir[q]][Temp(q)].content.kind = "partial"

\* C4: partial downloads live only in temp files, and no operation treats a
\* temp file as a complete or versioned artifact: no existence check looks at
\* one and no pruning removes one as an old version.
C4_TempsNeverArtifacts ==
    /\ \A d \in Dirs : \A n \in DOMAIN files[d] :
          files[d][n].content.kind = "partial" => IsTempName(n)
    /\ \A p \in Procs : ~IsTempName(Dest(p))
    /\ \A p \in Procs : \A n \in log[p].pruned : ~IsTempName(n)

\* The statements of _download_yq_binary and of the check that follows it.
DownloadPcs ==
    {"dl_fast", "dl_open", "dl_acquire", "dl_recheck", "dl_checksums", "dl_download",
     "dl_write", "dl_verify", "dl_chmod", "dl_rename", "dl_prune", "dl_finally",
     "dl_release", "dl_unlink_lock", "post"}
ReachedDownload(p) ==
    pc[p] \in DownloadPcs \/ via[p] # "" \/ log[p].transfers > 0 \/ log[p].manifest > 0

\* C5: the sources are consulted in the order override, cache, system PATH,
\* download, a later one only when all earlier ones yielded nothing: after a
\* cache hit the PATH is not probed and nothing is downloaded; a download is
\* attempted only with no override, a cache miss and no qualifying system yq.
C5_StrictOrder ==
    \A p \in Procs :
        /\ log[p].override # "" =>
              log[p].cache = "" /\ log[p].system = "" /\ ~ReachedDownload(p)
        /\ log[p].cache = "hit" =>
              pc[p] = "done" /\ log[p].system = "" /\ ~ReachedDownload(p)
        /\ log[p].system # "" => log[p].cache = "miss"
        /\ log[p].system = "found" => pc[p] = "done" /\ ~ReachedDownload(p)
        /\ ReachedDownload(p) =>
              log[p].override = "" /\ log[p].cache = "miss" /\ log[p].system = "absent"

\* C5 witness: one call returned the cached binary without probing, another
\* reached the download after a cache miss and a fruitless probe.
C5_Witness ==
    \E p, q \in Procs :
        /\ log[p].cache = "hit" /\ ret[p] = <<sdir[p], Dest(p)>>
        /\ Transferred(q) /\ log[q].cache = "miss" /\ log[q].system = "absent"

\* C6: an override that names no existing regular file fails at once with
\* YQBinaryNotFoundError: no cache lookup, no PATH probe, no network call, no
\* write to the storage directory, whatever the cache holds.
C6_InvalidOverrideFailsFirst ==
    \A p \in Procs :
        log[p].override \in {"dir", "missing"} =>
            /\ pc[p] = "done" /\ exc[p] = "YQBinaryNotFoundError" /\ msg[p] = "override"
            /\ ret[p] = <<>> /\ sdir[p] = ""
            /\ log[p].cache = "" /\ log[p].system = "" /\ ~log[p].wrote
            /\ ~ReachedDownload(p)

\* C6 witness: the override named a missing file while the cache held the
\* binary of the version the call would have resolved.
C6_Witness ==
    \E p \in Procs :
        /\ log[p].override = "missing" /\ exc[p] = "YQBinaryNotFoundError"
        /\ Exists("local", Dest(p))

\* C7: each failure of the download stage that the claim lists (network or
\* HTTP error, missing checksum entry, checksum mismatch, lock timeout) reaches
\* the caller as the one YQBinaryNotFoundError raised by the handler of line
\* 605, which carries the platform and the attempted storage path.
C7_ListedFailures == {"network", "manifest_network", "no_checksum", "checksum_mismatch",
                      "lock_timeout"}
C7_OnlyBinaryNotFound ==
    \A p \in Procs :
        (pc[p] = "done" /\ (msg[p] \in C7_ListedFailures \/ log[p].cause \in C7_ListedFailures))
            => exc[p] = "YQBinaryNotFoundError" /\ msg[p] = "download_failed"

C9_LockFileRemoved ==
    /\ \A p \in Procs :
          (pc[p] \in {"post", "done"} /\ log[p].locked) => ~holds[p] /\ log[p].unlinked
    /\ \A d \in Dirs :
          (\A p \in Procs : sdir[p] = d => pc[p] \notin DownloadPcs \ {"dl_fast", "post"})
              => LockFiles(d) = {}

\* C10: a waiter whose lock stays held gives up after the timeout and fails
\* with a provisioning error (YQError or its subclass), without having entered
\* the critical section, transferred anything or written the final path.
C10_TimeoutIsProvisioningError ==
    \A p \in Procs :
        msg[p] = "lock_timeout" =>
            /\ pc[p] = "done" /\ exc[p] \in {"YQError", "YQBinaryNotFoundError"}
            /\ ~log[p].locked /\ ~Transferred(p) /\ ~log[p].installed

\* C10, the parts that hold: the waiter that timed out is finished, never held
\* the lock, transferred nothing and installed nothing.
C10_TimeoutHasNoSideEffects ==
    \A p \in Procs :
        msg[p] = "lock_timeout" =>
            /\ pc[p] = "done" /\ exc[p] = "LockException"
            /\ ~log[p].locked /\ ~Transferred(p) /\ ~log[p].installed

\* Every process keeps running (each blocking call of the code has a timeout).
FairSpec == Spec /\ \A p \in Procs : WF_vars(Step(p))

\* C10, termination: under FairSpec every call returns or raises.
C10_Terminates == <>AllDone

\* The values of YQ_VERSION that select the pinned default: unset or empty, and
\* the default named without and with the leading "v".
DefaultEnv == {<<>>, Tail(DEFAULT_YQ_VERSION), DEFAULT_YQ_VERSION}

TupleOf(v) ==
    CASE v \in {DEFAULT_YQ_VERSION, Tail(DEFAULT_YQ_VERSION)} -> <<4, 52, 2>>
      [] v \in {V_PATCH, Tail(V_PATCH)} -> <<4, 52, 3>>
      [] v = V_MINOR -> <<4, 53, 0>>
      [] v = V_OLD -> <<4, 40, 2>>
      [] v = V_OLD_PIN -> <<4, 20, 1>>
      [] v = <<"4", ".", "25", ".", "1">> -> <<4, 25, 1>>
      [] v = <<"v", "4", ".", "52">> -> <<4, 52>>
      [] v = <<"v", "4", ".", "53">> -> <<4, 53>>
      [] v = <<"3">> -> <<3>>
      [] v = <<"v", "3">> -> <<3>>
      [] v = <<"v", "4", ".", "52", ".", "2", "-", "rc1">> -> <<4, 52, 2>>
      [] v = <<"4", ".", "53", ".", "0", "-", "beta">> -> <<4, 53, 0>>
      [] v = <<"v", "4", ".", "x", ".", "2">> -> <<4, 2>>
      [] OTHER -> <<>>

\* The tuple of the version a call requires.
Required(p) == IF yqenv[p] = <<>> THEN <<4, 52, 2>> ELSE TupleOf(yqenv[p])

\* a >= b in the lexicographic order of integer tuples.
LexGe(a, b) ==
    \/ \E i \in 1..Len(a) :
         /\ i <= Len(b) /\ a[i] > b[i]
         /\ \A j \in 1..(i - 1) : a[j] = b[j]
    \/ Len(a) >= Len(b) /\ \A j \in 1..Len(b) : a[j] = b[j]

\* The executable on PATH answered "yq --version" and its output has the
\* fingerprint.
HasFingerprint == onpath.found /\ onpath.run = "ok" /\ onpath.fingerprint

\* What follows the decision of _find_system_yq in get_yq_binary_path: the
\* executable on PATH is returned, or the call goes on to the download.
ProbeOutcome(p) ==
    /\ log[p].system = "found" => pc[p] = "done" /\ ret[p] = <<"PATH", <<"yq">>>>
    /\ log[p].system = "absent" => pc[p] = "dl_fast" /\ ret[p] = <<>> /\ exc[p] = ""

\* C12: the executable on PATH is returned if and only if its
\* output has the fingerprint and the version it reports is, as an integer
\* tuple, at least the required one; otherwise the call goes on to the download.
C12_FingerprintAndVersion ==
    \A p \in Procs :
        log[p].system # "" =>
            /\ log[p].system = "found" <=>
                  (HasFingerprint /\ LexGe(TupleOf(onpath.version), Required(p)))
            /\ ProbeOutcome(p)

\* What the probe decides: the executable on PATH is returned if and only if its output
\* has the fingerprint, writes the version with a leading "v", and that
\* version is, as an integer tuple, at least the required one; otherwise the
\* call goes on to the download.
C12_FingerprintVAndVersion ==
    \A p \in Procs :
        log[p].system # "" =>
            /\ log[p].system = "found" <=>
                  ( /\ HasFingerprint
                    /\ onpath.version # <<>> /\ Head(onpath.version) = "v"
                    /\ LexGe(TupleOf(onpath.version), Required(p)) )
            /\ ProbeOutcome(p)

\* A fingerprint-matching yq v4.40.2 is on PATH, the call requires
\* the default version and has gone on to the download.
C12_Witness ==
    \E p \in Procs :
        /\ onpath = Yq("ok", TRUE, V_OLD) /\ yqenv[p] = <<>>
        /\ log[p].system = "absent" /\ pc[p] = "dl_fast"

C14_ReturnedPathKept ==
    \A p \in Procs :
        (pc[p] = "done" /\ ret[p] = <<sdir[p], Dest(p)>>) => Exists(sdir[p], Dest(p))

\* C15: when _download_yq_binary returned normally and the final path is then
\* missing, the error the caller gets is not the one of the "auto-download
\* failed" handler (line 607) but the one raised for this case (line 601).
C15_MissingIsDistinctError ==
    \A p \in Procs :
        log[p].cause = "missing_after_download" =>
            exc[p] = "YQBinaryNotFoundError" /\ msg[p] # "download_failed"

\* The checksum comparison of call p failed.
Mismatch(p) == msg[p] = "checksum_mismatch" \/ log[p].cause = "checksum_mismatch"

C17_LockPerTarget ==
    \A p \in Procs :
        fh[p] # NoIno =>
            /\ Lock(p) = Dest(p) \o <<".", "lock">>
            /\ \A q \in Procs \ {p} :
                  fh[q] # NoIno => (Lock(p) = Lock(q) <=> Dest(p) = Dest(q))

\* C18: with a home directory that every call can create and write, every call
\* gets the per-user directory from _get_storage_location.
C18_PerUserDirectory ==
    \A p \in Procs : sdir[p] # "" => sdir[p] = "local"

\* The statements of get_yq_binary_path that come before the probe.
BeforeProbe == {"start", "loc_touch", "loc_unlink", "cache", "probe"}

\* C19: no exception leaves the probe; and when the yq on PATH cannot be
\* launched, times out or exits non-zero, a call that probed it took it as
\* absent and went on to the download without an error.
C19_ProbeNeverRaises ==
    \A p \in Procs :
        /\ msg[p] # "probe"
        /\ ( /\ onpath.found /\ onpath.run # "ok"
             /\ pc[p] \notin BeforeProbe /\ log[p].cache = "miss" )
           => /\ log[p].system = "absent" /\ pc[p] = "dl_fast"
              /\ exc[p] = "" /\ ret[p] = <<>>

\* C19 witness: the yq on PATH timed out and the call is at the download.
C19_Witness ==
    \E p \in Procs :
        /\ onpath.found /\ onpath.run = "TimeoutExpired"
        /\ log[p].system = "absent" /\ pc[p] = "dl_fast"

\* C20: a pruning step attempts every stale match (each is unlinked or its
\* unlink failed), raises nothing and leaves the installed binary as it is;
\* and a call one of whose unlinks failed does not leave _download_yq_binary
\* with an error.
C20_PruneIsBestEffort ==
    [][\A p \in Procs :
          /\ (pc[p] = "dl_prune" /\ pc'[p] # "dl_prune") =>
                LET stale == Stale(files[sdir[p]], platform_prefix(System, Arch), Dest(p))
                IN  /\ log'[p].pruned \cup log'[p].kept = stale
                    /\ log'[p].pruned \cap log'[p].kept = {}
                    /\ \A n \in log'[p].pruned : n \notin DOMAIN files'[sdir[p]]
                    /\ exc'[p] = "" /\ pc'[p] = "dl_finally"
                    /\ Exists(sdir[p], Dest(p)) =>
                          /\ Dest(p) \in DOMAIN files'[sdir[p]]
                          /\ files'[sdir[p]][Dest(p)] = files[sdir[p]][Dest(p)]
          /\ log'[p].kept # {} =>
                /\ via'[p] \in {"", "installed"}
                /\ pc'[p] \in {"dl_finally", "dl_release", "dl_unlink_lock"} => exc'[p] = ""
      ]_vars

\* C20 witness: a call's pruning failed to unlink one stale file and unlinked
\* another; the call left _download_yq_binary normally and returned the path
\* of the binary it installed, which is in place.
C20_Witness ==
    \E p \in Procs :
        /\ log[p].kept # {} /\ log[p].pruned # {}
        /\ via[p] = "installed" /\ pc[p] = "done"
        /\ ret[p] = <<sdir[p], Dest(p)>> /\ Exists(sdir[p], Dest(p))

\* ------------------------------------- parse_enabled_formats, is_format_enabled

\* The values of FormatType.
FormatType == {"json", "yaml", "toml", "xml", "csv", "tsv", "props"}

DEFAULT_FORMATS == <<"json", "yaml", "toml">>

\* str.strip().lower() of the texts used as names.
StripLower(name) ==
    CASE name \in {" JSON ", "JSON", "Json"} -> "json"
      [] name \in {"Yaml", "YAML", " yaml"} -> "yaml"
      [] name = "TOML" -> "toml"
      [] name = "XML" -> "xml"
      [] name = "  " -> ""
      [] OTHER -> name

\* MCP_CONFIG_FORMATS is not set.
Unset == <<"unset">>

\* Values of MCP_CONFIG_FORMATS, each as the list of its comma-separated parts
\* (the empty string has none).
EnvValues ==
    { Unset, <<>>, <<"  ">>, <<"json">>, <<"yaml">>, <<"json", "yaml">>,
      <<" JSON ", "Yaml">>, <<"xml">>, <<"bogus">>, <<"toml", "bogus">>,
      <<"XML", " yaml">> }

\* The names of a list that are values of FormatType, in order.
RECURSIVE ValidNames(_)
ValidNames(names) ==
    IF names = <<>> THEN <<>>
    ELSE IF StripLower(Head(names)) \in FormatType
         THEN <<StripLower(Head(names))>> \o ValidNames(Tail(names))
         ELSE ValidNames(Tail(names))

\* The body of parse_enabled_formats for a value of the variable.
ParseEnv(env) ==
    LET env_value == IF env = Unset THEN <<>> ELSE env
    IN  IF env_value = <<>> \/ (Len(env_value) = 1 /\ StripLower(env_value[1]) = "")
        THEN DEFAULT_FORMATS
        ELSE IF ValidNames(env_value) = <<>> THEN DEFAULT_FORMATS
        ELSE ValidNames(env_value)

\* The cache of functools.lru_cache has no entry.
NotCached == <<"not cached">>

\* parse_enabled_formats() under @functools.lru_cache(maxsize=1): the function
\* has no arguments, so the result of the first call is the result of all.
parse_enabled_formats(cache, env) ==
    IF cache = NotCached THEN ParseEnv(env) ELSE cache

\* is_format_enabled(format_name), given what parse_enabled_formats returned.
is_format_enabled(enabled_formats, format_name) ==
    \E i \in 1..Len(enabled_formats) : enabled_formats[i] = StripLower(format_name)

\* Names asked for.
FormatNames == {"json", "JSON", "Json", "yaml", "YAML", "toml", "xml", "csv", "bogus"}

InitFormat ==
    /\ NoProvisioning
    /\ arg = [fn |-> "format"]
    /\ res \in [step : {"start"}, env : EnvValues, cache : {NotCached},
                name : {""}, value : {FALSE}, raised : {""}]

\* os.environ["MCP_CONFIG_FORMATS"] = v, or its removal.
SetEnv ==
    /\ arg.fn = "format"
    /\ \E v \in EnvValues :
         /\ v # res.env
         /\ res' = [res EXCEPT !.step = "set", !.env = v]
    /\ UNCHANGED <<arg, pvars>>

\* A call is_format_enabled(name).
IsFormatEnabled ==
    /\ arg.fn = "format"
    /\ \E name \in FormatNames :
         LET enabled == parse_enabled_formats(res.cache, res.env)
         IN  res' = [res EXCEPT !.step = "checked", !.cache = enabled,
                                !.name = name, !.raised = "",
                                !.value = is_format_enabled(enabled, name)]
    /\ UNCHANGED <<arg, pvars>>

\* A call require_format_enabled(name), as the tools make for a file's format.
RequireFormatEnabled ==
    /\ arg.fn = "format"
    /\ \E name \in FormatNames :
         LET enabled == parse_enabled_formats(res.cache, res.env)
         IN  res' = [res EXCEPT !.step = "required", !.cache = enabled,
                                !.name = name,
                                !.value = is_format_enabled(enabled, name),
                                !.raised = IF is_format_enabled(enabled, name)
                                           THEN "" ELSE "ToolError"]
    /\ UNCHANGED <<arg, pvars>>

NextFormat == SetEnv \/ IsFormatEnabled \/ RequireFormatEnabled

FormatSpec == InitFormat /\ [][NextFormat]_vars

\* ------------------------------------------- _handle_data_set, _handle_data_delete

\* What the dry run of an operation gives: it fails, or it gives the modified
\* content, of which the model keeps what _parse_content_for_validation makes
\* of it (a value, None, or an exception), whether its data satisfy the
\* schema, and whether it has YAML anchors or aliases.
NoContent == [run |-> "failed", parse |-> "error", conforms |-> FALSE, anchors |-> FALSE]
Contents(format) ==
    { c \in [run : {"ok"}, parse : {"value", "none", "error"}, conforms : BOOLEAN,
             anchors : BOOLEAN] :
        /\ c.parse = "error" => ~c.conforms
        /\ c.parse = "none" => format # "toml"
        /\ c.anchors => format = "yaml" /\ c.parse = "value" }

\* The file's schema: none resolved, a schema, or a path whose schema cannot
\* be loaded.
Schemas == {"none", "ok", "unreadable"}

\* _validate_against_schema(validation_data, schema_path): is_valid.
_validate_against_schema(content, schema) == schema = "ok" /\ content.conforms

InitMutation ==
    /\ NoProvisioning
    /\ \E op \in {"set", "delete"}, format \in {"json", "yaml", "toml"},
          schema \in Schemas :
         \E c \in Contents(format) \cup {NoContent} :
             arg = [fn |-> "mutate", op |-> op, format |-> format,
                    schema |-> schema, content |-> c]
    /\ res = [step |-> "start", disk |-> "old", raised |-> "", validated |-> FALSE]

\* set_toml_value / delete_toml_key, or execute_yq with in_place=False: the
\* modified content is computed and the file is left alone; a failure becomes
\* a ToolError.
DryRun ==
    /\ arg.fn = "mutate" /\ res.step = "start"
    /\ res' = IF arg.content.run = "ok"
              THEN [res EXCEPT !.step = "computed"]
              ELSE [res EXCEPT !.step = "done", !.raised = "ToolError"]
    /\ UNCHANGED <<arg, pvars>>

\* _validate_and_write_content(path, content, schema_path, input_format).
\* The set of a YAML file goes on to _optimize_yaml_if_needed.
_validate_and_write_content ==
    /\ arg.fn = "mutate" /\ res.step = "computed"
    /\ LET c == arg.content
           after == IF arg.op = "set" /\ arg.format = "yaml" THEN "written" ELSE "done"
       IN  res' =
             IF arg.schema # "none" /\ c.parse = "error"
             THEN [res EXCEPT !.step = "done", !.raised = "ToolError"]
             ELSE IF arg.schema # "none" /\ c.parse # "none"
             THEN IF _validate_against_schema(c, arg.schema)
                  THEN [res EXCEPT !.step = after, !.disk = "new", !.validated = TRUE]
                  ELSE [res EXCEPT !.step = "done", !.raised = "ToolError"]
             ELSE [res EXCEPT !.step = after, !.disk = "new"]
    /\ UNCHANGED <<arg, pvars>>

\* _optimize_yaml_if_needed(path): a file with anchors or aliases is written
\* again, with the same data.
_optimize_yaml_if_needed ==
    /\ arg.fn = "mutate" /\ res.step = "written"
    /\ res' = [res EXCEPT !.step = "done",
                          !.disk = IF arg.content.anchors THEN "optimized" ELSE @]
    /\ UNCHANGED <<arg, pvars>>

NextMutation == DryRun \/ _validate_and_write_content \/ _optimize_yaml_if_needed

MutationSpec == InitMutation /\ [][NextMutation]_vars

\* ------------------------------------------------------ _paginate_result

PAGE_SIZE_CHARS == 10000
ADVISORY_PAGE_THRESHOLD == 2

\* cursor=None.
NoCursor == [kind |-> "none", offset |-> 0]

\* Faulty variant of _encode_cursor: the offset is one too large.
_encode_cursor_OffByOne(offset) == [kind |-> "b64json", offset |-> offset + 1]

\* _encode_cursor(offset): the base64 text of the JSON object {"offset": offset}.
_encode_cursor(offset) == [kind |-> "b64json", offset |-> offset]

\* Cursors a client can send besides those it was given: text that is not
\* base64, base64 of text that is not JSON, JSON objects without "offset" or
\* with an "offset" that is no integer, and a JSON list.
BadCursors ==
    { [kind |-> k, offset |-> 0] :
        k \in {"notb64", "notjson", "nooffset", "stroffset", "jsonlist"} }

\* _decode_cursor(cursor): the offset, or the exception raised.
_decode_cursor(cursor) ==
    CASE cursor.kind \in {"notb64", "notjson"} ->
             [raised |-> "ToolError", why |-> "format", offset |-> 0]
      [] cursor.kind = "jsonlist" ->
             [raised |-> "AttributeError", why |-> "get", offset |-> 0]
      [] cursor.kind \in {"nooffset", "stroffset"} ->
             [raised |-> "ToolError", why |-> "offset", offset |-> 0]
      [] cursor.kind = "b64json" /\ cursor.offset < 0 ->
             [raised |-> "ToolError", why |-> "offset", offset |-> 0]
      [] OTHER -> [raised |-> "", why |-> "", offset |-> cursor.offset]

Min(a, b) == IF a <= b THEN a ELSE b

\* Faulty variant of ExceedsResult: an offset equal to the length passes.
ExceedsResult_Beyond(offset, length) == offset > length

\* Line 89: offset >= len(result_str).
ExceedsResult(offset, length) == offset >= length

NoAdvisory == [present |-> FALSE, pages |-> 0, chars |-> 0]

\* A response that is an exception.
Raised(type, why) ==
    [raised |-> type, why |-> why, lo |-> 0, hi |-> 0,
     nextCursor |-> NoCursor, advisory |-> NoAdvisory]

\* _paginate_result(result_str, cursor) for a result string of the given
\* length. The page result_str[offset:page_end] is given by its bounds lo, hi:
\* it holds the characters lo+1 .. hi of the string.
_paginate_result(length, cursor) ==
    LET dec == IF cursor = NoCursor THEN [raised |-> "", why |-> "", offset |-> 0]
               ELSE _decode_cursor(cursor)
        offset == dec.offset
        page_end == offset + PAGE_SIZE_CHARS
        total_pages == (length + PAGE_SIZE_CHARS - 1) \div PAGE_SIZE_CHARS
    IN  IF dec.raised # "" THEN Raised(dec.raised, dec.why)
        ELSE IF cursor # NoCursor /\ ExceedsResult(offset, length)
        THEN Raised("ToolError", "exceeds result size")
        ELSE [raised |-> "", why |-> "",
              lo |-> Min(offset, length), hi |-> Min(page_end, length),
              nextCursor |-> IF page_end < length THEN _encode_cursor(page_end)
                             ELSE NoCursor,
              advisory |-> IF page_end < length /\ total_pages > ADVISORY_PAGE_THRESHOLD
                           THEN [present |-> TRUE, pages |-> total_pages,
                                 chars |-> length]
                           ELSE NoAdvisory]

\* Lengths of result strings, around the multiples of the page size.
Lengths ==
    {0, 1, PAGE_SIZE_CHARS - 1, PAGE_SIZE_CHARS, PAGE_SIZE_CHARS + 1,
     2 * PAGE_SIZE_CHARS - 1, 2 * PAGE_SIZE_CHARS, 2 * PAGE_SIZE_CHARS + 1,
     2 * PAGE_SIZE_CHARS + 5000, 3 * PAGE_SIZE_CHARS, 3 * PAGE_SIZE_CHARS + 1,
     4 * PAGE_SIZE_CHARS}

\* Cursors a client supplies on its own.
SuppliedCursors ==
    BadCursors \cup
    { _encode_cursor(o) : o \in {-1, 5 * PAGE_SIZE_CHARS} \cup Lengths }

InitPage ==
    /\ NoProvisioning
    /\ arg \in [fn : {"page"}, length : Lengths, cursor : SuppliedCursors]
    /\ res = NoRes

\* _paginate_result(result_str, None): the first page of a walk.
FirstPage ==
    /\ arg.fn = "page" /\ res.step = ""
    /\ LET r == _paginate_result(arg.length, NoCursor)
       IN  res' = [step |-> "walk", with |-> NoCursor, last |-> r, pages |-> <<r>>]
    /\ UNCHANGED <<arg, pvars>>

\* _paginate_result(result_str, nextCursor of the previous response).
NextPage ==
    /\ arg.fn = "page" /\ res.step = "walk"
    /\ res.last.raised = "" /\ res.last.nextCursor # NoCursor
    /\ LET r == _paginate_result(arg.length, res.last.nextCursor)
       IN  res' = [step |-> "walk", with |-> res.last.nextCursor, last |-> r,
                   pages |-> Append(res.pages, r)]
    /\ UNCHANGED <<arg, pvars>>

\* _paginate_result(result_str, cursor) with a cursor of the client's own.
RequestPage ==
    /\ arg.fn = "page" /\ res.step = ""
    /\ LET r == _paginate_result(arg.length, arg.cursor)
       IN  res' = [step |-> "request", with |-> arg.cursor, last |-> r,
                   pages |-> <<r>>]
    /\ UNCHANGED <<arg, pvars>>

NextPaging == FirstPage \/ NextPage \/ RequestPage

PageSpec == InitPage /\ [][NextPaging]_vars

\* The version string holds only text that int() reads where isdigit()
\* accepts it.
ValidVersion(v) == \A i \in 1..Len(v) : v[i] # SuperscriptTwo

\* C21: for every pair of version strings A and B, _version_meets_minimum(A, B)
\* is true when A's integer tuple is lexicographically >= B's and false when
\* it is smaller, a proper prefix counting as smaller; no exception leaves it.
C21_MeetsMinimumIsTupleOrder ==
    res.step = "compared" =>
        /\ res.raised = ""
        /\ (ValidVersion(arg.a) /\ ValidVersion(arg.b)) =>
               (res.value <=> LexGe(TupleOf(arg.a), TupleOf(arg.b)))

\* A two-segment version was compared with its three-segment extension written
\* with a pre-release suffix and without "v", and found smaller.
C21_Witness ==
    /\ res.step = "compared"
    /\ arg.a = <<"v", "4", ".", "53">>
    /\ arg.b = <<"4", ".", "53", ".", "0", "-", "beta">>
    /\ res.value = FALSE /\ res.raised = ""

\* C22: for every valid dotted version string v, _parse_version gives the
\* integers of the numeric segments (pre-release suffixes discarded, non-numeric
\* segments dropped, no exception), and parsing the rendering of that tuple
\* ("v", the integers joined with dots) gives the same tuple again.
C22_ParseRenderParse ==
    /\ (res.step = "parsed" /\ ValidVersion(arg.a)) =>
           res.raised = "" /\ res.parsed = TupleOf(arg.a)
    /\ res.step = "rendered" => res.again = res.parsed

\* A version with a non-numeric segment was parsed, rendered and parsed again.
C22_Witness ==
    /\ res.step = "rendered"
    /\ arg.a = <<"v", "4", ".", "x", ".", "2">>
    /\ res.parsed = <<4, 2>>

\* ceil(length / PAGE_SIZE_CHARS), one page for the empty string.
ExpectedPages(length) ==
    IF length = 0 THEN 1
    ELSE CHOOSE n \in 1..(length + 1) :
             (n - 1) * PAGE_SIZE_CHARS < length /\ length <= n * PAGE_SIZE_CHARS

\* The walk has come to a response without nextCursor.
WalkDone ==
    res.step = "walk" /\ res.last.raised = "" /\ res.last.nextCursor = NoCursor

\* C23: calling _paginate_result with no cursor and then with each response's
\* nextCursor never raises, ends after ceil(len/PAGE_SIZE_CHARS) pages (one for
\* the empty string), and the pages in order are the string: the first starts
\* at its first character, each next one starts where the one before ended,
\* and the last ends at its last character.
C23_PagesReproduceResult ==
    res.step = "walk" =>
        /\ \A i \in 1..Len(res.pages) :
             /\ res.pages[i].raised = ""
             /\ res.pages[i].lo <= res.pages[i].hi
             /\ res.pages[i].lo = (IF i = 1 THEN 0 ELSE res.pages[i - 1].hi)
        /\ Len(res.pages) <= ExpectedPages(arg.length)
        /\ WalkDone =>
             /\ Len(res.pages) = ExpectedPages(arg.length)
             /\ res.pages[Len(res.pages)].hi = arg.length

\* A string of two and a half pages was walked to its end in three pages.
C23_Witness ==
    /\ WalkDone
    /\ arg.length = 2 * PAGE_SIZE_CHARS + 5000
    /\ Len(res.pages) = 3

\* C24: a cursor of the client's own whose decoded offset is >= the length of
\* the result makes _paginate_result raise ToolError ("exceeds result size")
\* and return no page; a cursor that came as nextCursor for the same result
\* never does.
C24_CursorBeyondResultRaises ==
    /\ (/\ res.step = "request"
        /\ res.with.kind = "b64json"
        /\ res.with.offset >= arg.length) =>
           /\ res.last.raised = "ToolError"
           /\ res.last.why = "exceeds result size"
           /\ res.last.lo = res.last.hi
    /\ (res.step = "walk" /\ res.with # NoCursor) => res.last.raised = ""

\* The cursor sent points just behind the last character of a one-page result
\* and was refused.
C24_Witness ==
    /\ res.step = "request"
    /\ arg.length = PAGE_SIZE_CHARS
    /\ res.with = _encode_cursor(PAGE_SIZE_CHARS)
    /\ res.last.raised = "ToolError"

\* C25: every response of _paginate_result, whichever cursor it was asked
\* with, has the advisory exactly when the result spans more than 2 pages, and
\* the advisory gives ceil(len/PAGE_SIZE_CHARS) pages and len characters.
C25_AdvisoryOnEveryPage ==
    (res.step \in {"walk", "request"} /\ res.last.raised = "") =>
        /\ res.last.advisory.present <=>
               ExpectedPages(arg.length) > ADVISORY_PAGE_THRESHOLD
        /\ res.last.advisory.present =>
               /\ res.last.advisory.pages = ExpectedPages(arg.length)
               /\ res.last.advisory.chars = arg.length

\* The valid formats listed in a value of MCP_CONFIG_FORMATS.
Listed(env) ==
    IF env = Unset THEN {}
    ELSE { StripLower(env[i]) : i \in 1..Len(env) } \cap FormatType

\* The formats a value of MCP_CONFIG_FORMATS enables.
EnabledBy(env) ==
    IF Listed(env) = {} THEN {"json", "yaml", "toml"} ELSE Listed(env)

\* C26: at every call, is_format_enabled(name) is true exactly when name,
\* compared without case, is among the valid formats listed in the value
\* MCP_CONFIG_FORMATS has at that moment, or among json, yaml, toml when the
\* variable is unset, empty or lists no valid format, also when the variable
\* was changed between calls; require_format_enabled raises ToolError exactly
\* for a format that is not enabled.
C26_EnablementFollowsEnvironment ==
    res.step \in {"checked", "required"} =>
        /\ res.value <=> StripLower(res.name) \in EnabledBy(res.env)
        /\ res.step = "required" =>
               (res.raised = "ToolError" <=> StripLower(res.name) \notin EnabledBy(res.env))

\* The final paths of the versions a call can ask for.
FinalNames == { binary_name(System, Arch, v) : v \in Targets }

\* 0o755.
Executable == 493

\* C27: chmod(0o755) is applied to the temp file before the rename, so a
\* binary is executable from the moment it is visible at its final path: in no
\* state is there a file at a final path with another mode than 0755.
C27_FinalIsExecutable ==
    \A d \in Dirs : \A n \in (DOMAIN files[d]) \cap FinalNames :
        files[d][n].mode = Executable

\* A call has just renamed its temp file onto the final path of a directory
\* that was empty.
C27_Witness ==
    \E p \in Procs :
        /\ pc[p] = "dl_prune" /\ dir0 = EmptyDir
        /\ Exists(sdir[p], Dest(p))
        /\ files[sdir[p]][Dest(p)].mode = Executable

\* C28: at most one call at a time is between acquiring and releasing the lock
\* of one lock path, also when the lock file is unlinked and created anew
\* while calls have it open.
C28_OneHolderPerLockPath ==
    \A p, q \in Procs :
        (p # q /\ holds[p] /\ holds[q] /\ sdir[p] = sdir[q]) => Lock(p) # Lock(q)

\* C29: _cleanup_old_versions removes complete binaries of older versions
\* only: among the names a call's pruning has unlinked there is no lock file
\* and no temp file, its own or another call's.
C29_PrunesOnlyBinaries ==
    \A p \in Procs : \A n \in log[p].pruned :
        /\ ~IsLockName(n)
        /\ \A q \in Procs : n # Lock(q) /\ n # Temp(q)

\* A schema path was resolved and the modified content does not satisfy the
\* schema.
FailsValidation ==
    arg.schema # "none" /\ arg.content.run = "ok" /\ ~arg.content.conforms

\* C30: when a schema path was resolved for the file and the modified content
\* of a set or delete fails validation against it, the file keeps its previous
\* content and the operation ends with ToolError; the file is written only
\* when validation has passed or no schema applies.
C30_ValidatedBeforeWrite ==
    /\ FailsValidation => res.disk = "old"
    /\ (FailsValidation /\ res.step = "done") => res.raised = "ToolError"
    /\ res.disk # "old" => (arg.schema = "none" \/ res.validated)

====
